---- MODULE Spec2Model ----
(***************************************************************************)
(* Model of .github/scripts/update_defaults.py: the patcher that copies    *)
(* the signature lists of the JSON documents into the DEFAULT_* literals   *)
(* of scanner/refs/packages.py and scanner/refs/miners.py.                 *)
(*                                                                         *)
(* A text is a sequence of lexemes.  A declaration head, a marker comment, *)
(* a bracket, a quote, a backslash, a newline, a blank and an indentation  *)
(* of four blanks are one lexeme each; "a", "n", "u", "0", "1" are letters *)
(* and digits.  The regular expressions of the script are matched on       *)
(* these lexemes the way re matches them on characters.                    *)
(***************************************************************************)
EXTENDS Integers, Sequences, FiniteSets, TLC

\* ------------------------------------------------------------- bounds
\* Longest string of a JSON list, in characters.
MaxStrLen == 1
\* Most lines of a generated target file.
MaxLines == 2
\* Most invocations of the script in one behaviour.
MaxRuns == 2

\* ------------------------------------------------------------ lexemes
NL == "NL"
SP == "SP"
IND == "IND"
QUOTE == "QUOTE"
BSLASH == "BSLASH"
CTL == "CTL"

\* A file that does not exist.
NoFile == <<"<absent>">>

BAD == "DEFAULT_BAD_PACKAGES"
TGT == "DEFAULT_EXTRA_TARGETS"
FILE == "DEFAULT_MINER_FILE_HINTS"
PROC == "DEFAULT_MINER_PROC_HINTS"
SCR == "DEFAULT_SUSPICIOUS_SCRIPT_PATTERNS"

PkgNames == {BAD, TGT}
MinerNames == {FILE, PROC, SCR}

\* The head `NAME: <annotation> = ` of an annotated declaration.
Annot(name) ==
    IF name = BAD THEN name \o ": Dict[str, List[str]] = "
    ELSE name \o ": List[str] = "

\* The head `NAME = ` of a plain declaration.
Plain(name) == name \o " = "

m_begin(name) == "# BEGIN " \o name \o " (AUTO)"
m_end(name) == "# END " \o name \o " (AUTO)"

Min(S) == CHOOSE x \in S : \A y \in S : x <= y

\* F(v), with v evaluated once: the assignment of a local variable.
Bind(v, F(_)) == CHOOSE y \in {F(x) : x \in {v}} : TRUE

RECURSIVE Flatten(_)
Flatten(ss) == IF ss = <<>> THEN <<>> ELSE Head(ss) \o Flatten(Tail(ss))

\* --------------------------------------------------------- json.dumps
JList(items) == [kind |-> "list", items |-> items]
JDict(map) == [kind |-> "dict", map |-> map]

\* Unicode code point of a character, the order sort_keys sorts by.
CodePoint(c) ==
    CASE c = CTL -> 1
      [] c = NL -> 10
      [] c = QUOTE -> 34
      [] c = "0" -> 48
      [] c = "1" -> 49
      [] c = "[" -> 91
      [] c = BSLASH -> 92
      [] c = "]" -> 93
      [] c = "a" -> 97
      [] c = "n" -> 110
      [] c = "u" -> 117
      [] c = "{" -> 123
      [] c = "}" -> 125

RECURSIVE StrLeq(_, _)
StrLeq(s, t) ==
    IF s = <<>> THEN TRUE
    ELSE IF t = <<>> THEN FALSE
    ELSE IF Head(s) # Head(t) THEN CodePoint(Head(s)) < CodePoint(Head(t))
    ELSE StrLeq(Tail(s), Tail(t))

RECURSIVE SortedKeys(_)
SortedKeys(S) ==
    IF S = {} THEN <<>>
    ELSE LET m == CHOOSE x \in S : \A y \in S : StrLeq(x, y)
         IN <<m>> \o SortedKeys(S \ {m})

\* json's escape of one character of a string (ensure_ascii=False).
json_escape(c) ==
    CASE c = BSLASH -> <<BSLASH, BSLASH>>
      [] c = QUOTE -> <<BSLASH, QUOTE>>
      [] c = NL -> <<BSLASH, "n">>
      [] c = CTL -> <<BSLASH, "u", "0", "0", "0", "1">>
      [] OTHER -> <<c>>

json_string(s) ==
    <<QUOTE>> \o Flatten([i \in 1..Len(s) |-> json_escape(s[i])]) \o <<QUOTE>>

Indent(depth) == [i \in 1..depth |-> IND]

\* A list of strings at nesting depth `depth` (indent=4).
json_list(items, depth) ==
    IF items = <<>> THEN <<"[", "]">>
    ELSE <<"[">>
         \o Flatten([i \in 1..Len(items) |->
                (IF i = 1 THEN <<>> ELSE <<",">>)
                \o <<NL>> \o Indent(depth) \o json_string(items[i])])
         \o <<NL>> \o Indent(depth - 1) \o <<"]">>

\* A mapping of string to list of strings (indent=4, sort_keys=True).
json_dict(map) ==
    IF DOMAIN map = {} THEN <<"{", "}">>
    ELSE LET ks == SortedKeys(DOMAIN map)
         IN <<"{">>
            \o Flatten([i \in 1..Len(ks) |->
                   (IF i = 1 THEN <<>> ELSE <<",">>)
                   \o <<NL>> \o Indent(1) \o json_string(ks[i]) \o <<":", SP>>
                   \o json_list(map[ks[i]], 2)])
            \o <<NL, "}">>

dumps_python(value) ==
    IF value.kind = "dict" THEN json_dict(value.map)
    ELSE json_list(value.items, 1)

\* The declaration an update function injects: f"NAME: <annotation> = {dumps}".
Payload(name, value) == <<Annot(name)>> \o dumps_python(value)

\* ------------------------------------------------- re: the template
\* re parses the replacement string as a template before it searches:
\* "\\" is one backslash, "\n" a newline, a backslash before another ASCII
\* letter is the error "bad escape", before anything else it stays.
RECURSIVE template_ok(_)
template_ok(t) ==
    IF t = <<>> THEN TRUE
    ELSE IF Head(t) # BSLASH THEN template_ok(Tail(t))
    ELSE IF Len(t) = 1 THEN FALSE
    ELSE IF t[2] = "u" THEN FALSE
    ELSE template_ok(Tail(Tail(t)))

RECURSIVE expand_template(_)
expand_template(t) ==
    IF t = <<>> THEN <<>>
    ELSE IF Head(t) # BSLASH \/ Len(t) = 1
         THEN <<Head(t)>> \o expand_template(Tail(t))
    ELSE (CASE t[2] = BSLASH -> <<BSLASH>>
            [] t[2] = "n" -> <<NL>>
            [] OTHER -> <<BSLASH, t[2]>>)
         \o expand_template(Tail(Tail(t)))

\* ------------------------------------------------- re: the patterns
\* \s of the patterns.
IsSpace(tok) == tok \in {SP, NL, IND}

\* NAME\s*:\s*<annotation>\s*=\s*<open>.*?<close> and NAME\s*=\s*<open>.*?<close>
Pattern(head, open, close) == [head |-> head, open |-> open, close |-> close]
pat_annot(name) ==
    IF name = BAD THEN Pattern(Annot(name), "{", "}") ELSE Pattern(Annot(name), "[", "]")
pat_plain(name) ==
    IF name = BAD THEN Pattern(Plain(name), "{", "}") ELSE Pattern(Plain(name), "[", "]")

\* First index from i on that holds no white space (Len(src)+1 when none).
SkipSpace(src, i) ==
    Min({k \in i..(Len(src) + 1) : k = Len(src) + 1 \/ ~IsSpace(src[k])})

\* Where the match of pat that starts at i ends; 0 when there is none.
\* .*? with DOTALL stops at the first closing bracket after the opening one.
MatchEnd(src, pat, i) ==
    IF src[i] # pat.head THEN 0
    ELSE LET k == SkipSpace(src, i + 1)
         IN IF k > Len(src) THEN 0
            ELSE IF src[k] # pat.open THEN 0
            ELSE LET js == {j \in (k + 1)..Len(src) : src[j] = pat.close}
                 IN IF js = {} THEN 0 ELSE Min(js)

\* re.search: the leftmost match, <<first, last>>, or <<0, 0>>.
Search(src, pat) ==
    LET starts == {i \in 1..Len(src) : MatchEnd(src, pat, i) # 0}
    IN IF starts = {} THEN <<0, 0>>
       ELSE <<Min(starts), MatchEnd(src, pat, Min(starts))>>

\* re.subn(pat, replacement, src, count=1, flags=re.DOTALL)
subn(pat, replacement, src) ==
    LET m == Search(src, pat)
    IN IF m[1] = 0 THEN [src |-> src, n |-> 0]
       ELSE [src |-> SubSeq(src, 1, m[1] - 1) \o expand_template(replacement)
                     \o SubSeq(src, m[2] + 1, Len(src)),
             n |-> 1]

\* replace_first, had it replaced the match that comes first in the text
\* whichever pattern it is a match of.
replace_first_leftmost(src, patterns, replacement) ==
    LET hits == {i \in 1..Len(patterns) : subn(patterns[i], replacement, src).n # 0}
        first == CHOOSE i \in hits :
                    \A j \in hits : Search(src, patterns[i])[1] <= Search(src, patterns[j])[1]
    IN IF hits = {} THEN [src |-> src, changed |-> FALSE, used |-> 0]
       ELSE [src |-> subn(patterns[first], replacement, src).src,
             changed |-> TRUE, used |-> first]

\* replace_first: the first pattern that matches is replaced, once.
\* used: the index of the pattern that was used, 0 for none.
replace_first(src, patterns, replacement) ==
    LET hits == {i \in 1..Len(patterns) : subn(patterns[i], replacement, src).n # 0}
    IN IF hits = {} THEN [src |-> src, changed |-> FALSE, used |-> 0]
       ELSE [src |-> subn(patterns[Min(hits)], replacement, src).src,
             changed |-> TRUE, used |-> Min(hits)]

\* (begin)(.*?)[ \t]*(end): the leftmost begin marker that an end marker
\* follows, up to the first end marker after it.
MarkSearch(src, begin, end) ==
    LET starts == {i \in 1..Len(src) :
                     src[i] = begin /\ \E j \in (i + 1)..Len(src) : src[j] = end}
    IN IF starts = {} THEN <<0, 0>>
       ELSE <<Min(starts),
              Min({j \in (Min(starts) + 1)..Len(src) : src[j] = end})>>

\* replace_between_marks: r"\1" + payload + r"\3" replaces the first match.
replace_between_marks(src, begin, end, payload) ==
    LET m == MarkSearch(src, begin, end)
    IN IF m[1] = 0 THEN [src |-> src, changed |-> FALSE]
       ELSE [src |-> SubSeq(src, 1, m[1]) \o expand_template(payload)
                     \o SubSeq(src, m[2], Len(src)),
             changed |-> TRUE]

\* ------------------------------------------ the update functions' text
\* update_packages_defaults from the text it read to the text it writes.
\* error: re raised "bad escape" on a payload (before any search).
packages_patch(src, bad_packages, extra_targets) ==
    Bind(Payload(BAD, bad_packages), LAMBDA new_bad :
    Bind(Payload(TGT, extra_targets), LAMBDA new_targets :
    Bind(replace_first(src, <<pat_annot(BAD), pat_plain(BAD)>>, new_bad), LAMBDA r1 :
    Bind(replace_first(r1.src, <<pat_annot(TGT), pat_plain(TGT)>>, new_targets), LAMBDA r2 :
        [src |-> r2.src,
         changed |-> r1.changed \/ r2.changed,
         error |-> ~(template_ok(new_bad) /\ template_ok(new_targets))]))))

\* Lines 154-157: the three marker attempts, each on the text of the last.
marker_attempt(src, new_file, new_proc, new_scr) ==
    Bind(replace_between_marks(src, m_begin(FILE), m_end(FILE), new_file), LAMBDA m1 :
    Bind(replace_between_marks(m1.src, m_begin(PROC), m_end(PROC), new_proc), LAMBDA m2 :
    Bind(replace_between_marks(m2.src, m_begin(SCR), m_end(SCR), new_scr), LAMBDA m3 :
        [src |-> m3.src, marks |-> <<m1.changed, m2.changed, m3.changed>>])))

\* Lines 169-186: the three replace_first of the fallback, each on the text
\* of the last.  used: u1, u2, u3 as the index of the pattern, 0 for none;
\* steps: the text each replace_first was given.
regex_fallback(src, new_file, new_proc, new_scr) ==
    Bind(replace_first(src, <<pat_annot(FILE), pat_plain(FILE)>>, new_file), LAMBDA r1 :
    Bind(replace_first(r1.src, <<pat_annot(PROC), pat_plain(PROC)>>, new_proc), LAMBDA r2 :
    Bind(replace_first(r2.src, <<pat_annot(SCR), pat_plain(SCR)>>, new_scr), LAMBDA r3 :
        [src |-> r3.src,
         changed |-> r1.changed \/ r2.changed \/ r3.changed,
         used |-> <<r1.used, r2.used, r3.used>>,
         steps |-> <<src, r1.src, r2.src>>])))

\* miners_patch, had it gone on to the regex fallback after the markers.
miners_patch_fall_through(src, file_hints, proc_hints, script_patterns) ==
    Bind(Payload(FILE, file_hints), LAMBDA new_file :
    Bind(Payload(PROC, proc_hints), LAMBDA new_proc :
    Bind(Payload(SCR, script_patterns), LAMBDA new_scr :
    Bind(~(template_ok(new_file) /\ template_ok(new_proc) /\ template_ok(new_scr)),
         LAMBDA error :
    Bind(marker_attempt(src, new_file, new_proc, new_scr), LAMBDA m :
    Bind(regex_fallback(m.src, new_file, new_proc, new_scr), LAMBDA r :
        [src |-> r.src,
         changed |-> m.marks[1] \/ m.marks[2] \/ m.marks[3] \/ r.changed,
         error |-> error, marks |-> m.marks, used |-> r.used,
         steps |-> r.steps]))))))

\* miners_patch, had it fallen back to the regex for each declaration whose
\* marker pair is not found.
miners_patch_per_declaration(src, file_hints, proc_hints, script_patterns) ==
    LET one(text, name, payload) ==
            Bind(replace_between_marks(text, m_begin(name), m_end(name), payload),
                 LAMBDA m :
                    IF m.changed THEN [src |-> m.src, mark |-> TRUE, used |-> 0]
                    ELSE Bind(replace_first(text, <<pat_annot(name), pat_plain(name)>>,
                                            payload),
                              LAMBDA r : [src |-> r.src, mark |-> FALSE, used |-> r.used]))
    IN
    Bind(Payload(FILE, file_hints), LAMBDA new_file :
    Bind(Payload(PROC, proc_hints), LAMBDA new_proc :
    Bind(Payload(SCR, script_patterns), LAMBDA new_scr :
    Bind(one(src, FILE, new_file), LAMBDA d1 :
    Bind(one(d1.src, PROC, new_proc), LAMBDA d2 :
    Bind(one(d2.src, SCR, new_scr), LAMBDA d3 :
        [src |-> d3.src,
         changed |-> d1.mark \/ d2.mark \/ d3.mark
                     \/ d1.used # 0 \/ d2.used # 0 \/ d3.used # 0,
         error |-> ~(template_ok(new_file) /\ template_ok(new_proc)
                     /\ template_ok(new_scr)),
         marks |-> <<d1.mark, d2.mark, d3.mark>>,
         used |-> <<d1.used, d2.used, d3.used>>,
         steps |-> <<src, d1.src, d2.src>>]))))))

\* update_miners_defaults from the text it read to the text it writes:
\* the three marker pairs first; the regex fallback when none was found.
\* marks: c1, c2, c3 of the marker attempt.
miners_patch(src, file_hints, proc_hints, script_patterns) ==
    Bind(Payload(FILE, file_hints), LAMBDA new_file :
    Bind(Payload(PROC, proc_hints), LAMBDA new_proc :
    Bind(Payload(SCR, script_patterns), LAMBDA new_scr :
    Bind(~(template_ok(new_file) /\ template_ok(new_proc) /\ template_ok(new_scr)),
         LAMBDA error :
    Bind(marker_attempt(src, new_file, new_proc, new_scr), LAMBDA m :
        IF m.marks[1] \/ m.marks[2] \/ m.marks[3]
        THEN [src |-> m.src, changed |-> TRUE, error |-> error,
              marks |-> m.marks, used |-> <<0, 0, 0>>, steps |-> <<>>]
        ELSE Bind(regex_fallback(src, new_file, new_proc, new_scr), LAMBDA r :
                [src |-> r.src, changed |-> r.changed, error |-> error,
                 marks |-> m.marks, used |-> r.used, steps |-> r.steps]))))))

\* What write_atomic writes: content, with a newline when it ends with none.
Written(content) ==
    IF content # <<>> /\ content[Len(content)] = NL THEN content
    ELSE content \o <<NL>>

\* --------------------------------------------------------- the inputs
StrChars == {"a", "]", BSLASH, NL, CTL}
Strings == UNION {[1..k -> StrChars] : k \in 0..MaxStrLen}

\* The lists of strings the JSON documents hold.
ItemLists ==
    {<<>>} \cup {<<s>> : s \in Strings} \cup {<< <<"a">>, <<"]">> >>}

Range(f) == {f[i] : i \in DOMAIN f}

\* bad_packages.json: every item a package name, with the items as its list.
DictOf(items) == JDict([k \in Range(items) |-> items])

DocNames ==
    {"bad_packages.json", "targets.json", "miner_file_hints.json",
     "miner_proc_hints.json", "suspicious_patterns.json"}
Ok(val) == [st |-> "ok", val |-> val]
Missing == [st |-> "missing", val |-> JList(<<>>)]
Malformed == [st |-> "malformed", val |-> JList(<<>>)]
\* A JSON object without the key main reads.
NoKey == [st |-> "nokey", val |-> JList(<<>>)]

AllOk(items) ==
    [d \in DocNames |->
        IF d = "bad_packages.json" THEN Ok(DictOf(items)) ELSE Ok(JList(items))]

\* Every document sound, with any list; or one document of a sound set
\* missing, malformed, or without its key.
DocSets ==
    {AllOk(v) : v \in ItemLists}
    \cup {[AllOk(<< <<"a">> >>) EXCEPT ![d] = p] :
            d \in DocNames, p \in {Missing, Malformed}}
    \cup {[AllOk(<< <<"a">> >>) EXCEPT ![d] = NoKey] :
            d \in DocNames \ {"bad_packages.json"}}

PKG == "packages.py"
MIN == "miners.py"
Bak(path) == path \o ".bak"
Paths == {PKG, MIN, Bak(PKG), Bak(MIN)}

Open(name) == IF name = BAD THEN "{" ELSE "["
Close(name) == IF name = BAD THEN "}" ELSE "]"
MarkerBlock(name) ==
    <<m_begin(name), NL, Annot(name), Open(name), Close(name), NL, m_end(name), NL>>
AnnotDecl(name) == <<Annot(name), Open(name), Close(name), NL>>
PlainDecl(name) == <<Plain(name), Open(name), Close(name), NL>>

PkgFiles ==
    {NoFile,
     <<"a", NL>>,
     AnnotDecl(BAD) \o AnnotDecl(TGT),
     <<Plain(TGT), SP, "[", QUOTE, "]", QUOTE, "]">>}
MinFiles ==
    {NoFile,
     <<"a", NL>>,
     MarkerBlock(FILE) \o PlainDecl(PROC),
     <<Annot(SCR), "[", QUOTE, "a", QUOTE, "]">>}

\* --------------------------------------------------------- the loader
\* load_json: the exception it raises ("" for none) and the value.
load_json(doc) ==
    IF doc.st = "missing" THEN [exc |-> "FileNotFoundError", val |-> doc.val]
    ELSE IF doc.st = "malformed" THEN [exc |-> "JSONDecodeError", val |-> doc.val]
    ELSE [exc |-> "", val |-> doc.val]

\* .get(key, []) of a loaded object.
get(doc) == IF doc.st = "nokey" THEN JList(<<>>) ELSE doc.val

\* main's try/except around an optional document.
optional(doc) ==
    IF load_json(doc).exc = "FileNotFoundError"
    THEN [exc |-> "", val |-> JList(<<>>)]
    ELSE [exc |-> load_json(doc).exc, val |-> get(doc)]

NoVals ==
    [bad_packages |-> JDict(<<>>), extra_targets |-> JList(<<>>),
     file_hints |-> JList(<<>>), proc_hints |-> JList(<<>>),
     script_patterns |-> JList(<<>>)]

\* main_load, had main caught every exception of an optional document.
main_load_lenient(ds) ==
    LET bad == load_json(ds["bad_packages.json"])
        tgt == load_json(ds["targets.json"])
        opt(d) == IF load_json(ds[d]).exc # "" THEN JList(<<>>) ELSE get(ds[d])
    IN IF bad.exc # "" THEN [exc |-> bad.exc, vals |-> NoVals]
       ELSE IF tgt.exc # "" THEN [exc |-> tgt.exc, vals |-> NoVals]
       ELSE [exc |-> "",
             vals |-> [bad_packages |-> bad.val,
                       extra_targets |-> get(ds["targets.json"]),
                       file_hints |-> opt("miner_file_hints.json"),
                       proc_hints |-> opt("miner_proc_hints.json"),
                       script_patterns |-> opt("suspicious_patterns.json")]]

\* The five loads of main, in order: the first exception ends them.
main_load(ds) ==
    LET bad == load_json(ds["bad_packages.json"])
        tgt == load_json(ds["targets.json"])
        fh == optional(ds["miner_file_hints.json"])
        ph == optional(ds["miner_proc_hints.json"])
        sp == optional(ds["suspicious_patterns.json"])
        excs == <<bad.exc, tgt.exc, fh.exc, ph.exc, sp.exc>>
        raised == {i \in 1..5 : excs[i] # ""}
    IN IF raised # {} THEN [exc |-> excs[Min(raised)], vals |-> NoVals]
       ELSE [exc |-> "",
             vals |-> [bad_packages |-> bad.val,
                       extra_targets |-> get(ds["targets.json"]),
                       file_hints |-> fh.val, proc_hints |-> ph.val,
                       script_patterns |-> sp.val]]

\* ---------------------------------------------------------- the state
VARIABLES
    argv,       \* the command line: whether it parses, and --dry-run
    docs,       \* the JSON documents of the working directory
    fs,         \* scanner/refs: path -> text, NoFile when absent
    tmps,       \* the temporary files of scanner/refs, oldest first
    pc,         \* where the process is; "idle" when none runs
    run,        \* invocations so far
    dry_run,    \* args.dry_run
    vals,       \* the values main loaded
    target,     \* the file the running update function patches
    src,        \* the text that function read from target
    content,    \* the text it handed to write_atomic
    changed,    \* changed_pkg and changed_min
    exit,       \* how the last process ended: code and cause
    pre,        \* fs and tmps when the running invocation began
    hist,       \* one record for each ended invocation
    probe       \* PatchSpec: a patch function, its input and its result

vars ==
    <<argv, docs, fs, tmps, pc, run, dry_run, vals, target, src, content, changed,
      exit, pre, hist, probe>>

NoChange == [p \in {PKG, MIN} |-> FALSE]
NoExit == [code |-> -1, cause |-> "none"]
NoProbe == [op |-> "none"]

Init ==
    /\ argv \in {[ok |-> FALSE, dry_run |-> FALSE]}
                \cup {[ok |-> TRUE, dry_run |-> d] : d \in BOOLEAN}
    /\ docs \in DocSets
    /\ fs \in {[p \in Paths |-> IF p = PKG THEN f ELSE IF p = MIN THEN g ELSE NoFile] :
                 f \in PkgFiles, g \in MinFiles}
    /\ tmps = <<>>
    /\ pc = "idle"
    /\ run = 0
    /\ dry_run = FALSE
    /\ vals = NoVals
    /\ target = ""
    /\ src = <<>>
    /\ content = <<>>
    /\ changed = NoChange
    /\ exit = NoExit
    /\ pre = [fs |-> fs, tmps |-> tmps]
    /\ hist = <<>>
    /\ probe = NoProbe

\* The process ends: sys.exit, an uncaught exception (code 1), or a kill.
Exit(code, cause, chg) ==
    /\ pc' = "idle"
    /\ exit' = [code |-> code, cause |-> cause]
    /\ changed' = chg
    /\ hist' = Append(hist, [code |-> code, cause |-> cause, changed |-> chg,
                             dry_run |-> dry_run, fs |-> fs, tmps |-> tmps,
                             pre |-> pre, target |-> target, src |-> src,
                             content |-> content])
    /\ vals' = NoVals
    /\ target' = ""
    /\ src' = <<>>
    /\ content' = <<>>
    /\ UNCHANGED <<argv, docs, fs, tmps, run, dry_run, pre, probe>>

\* Another invocation follows only one that ended with sys.exit.
\* parse_args: a bad command line ends the process with argparse's code 2.
parse_args ==
    /\ pc = "idle"
    /\ run < MaxRuns
    /\ run > 0 => exit.cause = "sys.exit"
    /\ run' = run + 1
    /\ pre' = [fs |-> fs, tmps |-> tmps]
    /\ IF argv.ok
       THEN /\ pc' = "load"
            /\ dry_run' = argv.dry_run
            /\ changed' = NoChange
            /\ exit' = NoExit
            /\ UNCHANGED <<argv, docs, fs, tmps, vals, target, src, content, hist, probe>>
       ELSE /\ pc' = "idle"
            /\ exit' = [code |-> 2, cause |-> "usage"]
            /\ changed' = NoChange
            /\ dry_run' = FALSE
            /\ hist' = Append(hist, [code |-> 2, cause |-> "usage",
                                     changed |-> NoChange, dry_run |-> FALSE,
                                     fs |-> fs, tmps |-> tmps,
                                     pre |-> [fs |-> fs, tmps |-> tmps],
                                     target |-> "", src |-> <<>>,
                                     content |-> <<>>])
            /\ UNCHANGED <<argv, docs, fs, tmps, vals, target, src, content, probe>>

\* main, lines 209-224: the documents are loaded before anything is patched.
main_loads ==
    /\ pc = "load"
    /\ \E r \in {main_load(docs)} :
          IF r.exc # ""
          THEN Exit(1, r.exc, changed)
          ELSE /\ vals' = r.vals
               /\ pc' = "packages"
               /\ UNCHANGED <<argv, docs, fs, tmps, run, dry_run, target, src, content,
                              changed, exit, pre, hist, probe>>

\* update_packages_defaults, up to its call of write_atomic.
update_packages_defaults ==
    /\ pc = "packages"
    /\ IF fs[PKG] = NoFile
       THEN Exit(1, "Fichier introuvable", changed)
       ELSE \E r \in {packages_patch(fs[PKG], vals.bad_packages, vals.extra_targets)} :
               IF r.error
               THEN Exit(1, "re.error", changed)
               ELSE IF r.changed
               THEN /\ target' = PKG
                    /\ src' = fs[PKG]
                    /\ content' = r.src
                    /\ pc' = "wa_backup"
                    /\ UNCHANGED <<argv, docs, fs, tmps, run, dry_run, vals, changed,
                                   exit, pre, hist, probe>>
               ELSE /\ changed' = [changed EXCEPT ![PKG] = FALSE]
                    /\ pc' = "miners"
                    /\ UNCHANGED <<argv, docs, fs, tmps, run, dry_run, vals, target, src,
                                   content, exit, pre, hist, probe>>

\* update_miners_defaults, up to its call of write_atomic.
update_miners_defaults ==
    /\ pc = "miners"
    /\ IF fs[MIN] = NoFile
       THEN /\ changed' = [changed EXCEPT ![MIN] = FALSE]
            /\ pc' = "summary"
            /\ UNCHANGED <<argv, docs, fs, tmps, run, dry_run, vals, target, src,
                           content, exit, pre, hist, probe>>
       ELSE \E r \in {miners_patch(fs[MIN], vals.file_hints, vals.proc_hints,
                                     vals.script_patterns)} :
               IF r.error
               THEN Exit(1, "re.error", changed)
               ELSE IF r.changed
               THEN /\ target' = MIN
                    /\ src' = fs[MIN]
                    /\ content' = r.src
                    /\ pc' = "wa_backup"
                    /\ UNCHANGED <<argv, docs, fs, tmps, run, dry_run, vals, changed,
                                   exit, pre, hist, probe>>
               ELSE /\ changed' = [changed EXCEPT ![MIN] = FALSE]
                    /\ pc' = "summary"
                    /\ UNCHANGED <<argv, docs, fs, tmps, run, dry_run, vals, target, src,
                                   content, exit, pre, hist, probe>>

\* write_atomic, lines 72-74: the backup beside an existing target.
wa_backup ==
    /\ pc = "wa_backup"
    /\ fs' = IF fs[target] # NoFile
             THEN [fs EXCEPT ![Bak(target)] = fs[target]]
             ELSE fs
    /\ pc' = "wa_tmp"
    /\ UNCHANGED <<argv, docs, tmps, run, dry_run, vals, target, src, content, changed,
                   exit, pre, hist, probe>>

\* line 75: NamedTemporaryFile(delete=False) makes a new, empty file.
wa_tmp ==
    /\ pc = "wa_tmp"
    /\ tmps' = Append(tmps, <<>>)
    /\ pc' = "wa_write"
    /\ UNCHANGED <<argv, docs, fs, run, dry_run, vals, target, src, content, changed,
                   exit, pre, hist, probe>>

SetLast(s, v) == [s EXCEPT ![Len(s)] = v]
Front(s) == SubSeq(s, 1, Len(s) - 1)
Last(s) == s[Len(s)]

\* wa_write, had the script written to the target itself.
wa_write_in_place ==
    /\ pc = "wa_write"
    /\ fs' = [fs EXCEPT ![target] =
                 SubSeq(Written(content), 1, Len(Written(content)) \div 2)]
    /\ pc' = "wa_close"
    /\ UNCHANGED <<argv, docs, tmps, run, dry_run, vals, target, src, content,
                   changed, exit, pre, hist, probe>>

\* line 76: the first half of the text reaches the temporary file ...
wa_write ==
    /\ pc = "wa_write"
    /\ tmps' = SetLast(tmps, SubSeq(Written(content), 1, Len(Written(content)) \div 2))
    /\ pc' = "wa_close"
    /\ UNCHANGED <<argv, docs, fs, run, dry_run, vals, target, src, content, changed,
                   exit, pre, hist, probe>>

\* ... and the rest when the with block closes it.
wa_close ==
    /\ pc = "wa_close"
    /\ tmps' = SetLast(tmps, Written(content))
    /\ pc' = "wa_rename"
    /\ UNCHANGED <<argv, docs, fs, run, dry_run, vals, target, src, content, changed,
                   exit, pre, hist, probe>>

\* line 78: the rename; write_atomic and the update function return True.
wa_rename ==
    /\ pc = "wa_rename"
    /\ fs' = [fs EXCEPT ![target] = Last(tmps)]
    /\ tmps' = Front(tmps)
    /\ changed' = [changed EXCEPT ![target] = TRUE]
    /\ pc' = IF target = PKG THEN "miners" ELSE "summary"
    /\ UNCHANGED <<argv, docs, run, dry_run, vals, target, src, content, exit, pre,
                   hist, probe>>

\* tmp.write, the close or the rename raises OSError: nothing catches it.
wa_fail ==
    /\ pc \in {"wa_write", "wa_close", "wa_rename"}
    /\ Exit(1, "OSError", changed)

\* The process is killed inside write_atomic.
wa_interrupt ==
    /\ pc \in {"wa_backup", "wa_tmp", "wa_write", "wa_close", "wa_rename"}
    /\ Exit(-1, "killed", changed)

\* The code main exits with when an update function returned True.
ChangedExit == 2

\* main, lines 235-244: ChangedExit when an update function returned True,
\* else 0.  args.dry_run only prints a line.
main_exit ==
    /\ pc = "summary"
    /\ Exit(IF changed[PKG] \/ changed[MIN] THEN ChangedExit ELSE 0, "sys.exit",
            changed)

Next ==
    \/ parse_args
    \/ main_loads
    \/ update_packages_defaults
    \/ update_miners_defaults
    \/ wa_backup
    \/ wa_tmp
    \/ wa_write
    \/ wa_close
    \/ wa_rename
    \/ wa_fail
    \/ wa_interrupt
    \/ main_exit

Spec == Init /\ [][Next]_vars

\* ------------------------------------------- the patch functions alone
\* PatchSpec applies replace_first and update_miners_defaults' patch and
\* write to every text of at most MaxLines lines and every list of ItemLists.
PlainTail(name) == <<Plain(name), Open(name), QUOTE, Close(name), QUOTE, Close(name)>>
LinesOf(name) ==
    {<<m_begin(name), NL>>, <<m_end(name), NL>>, MarkerBlock(name),
     AnnotDecl(name), PlainDecl(name), PlainTail(name)}
MinerLines == LinesOf(FILE) \cup LinesOf(PROC) \cup {<<"a", NL>>, <<"a">>}
PkgLines ==
    {AnnotDecl(BAD), PlainDecl(BAD), PlainTail(BAD),
     AnnotDecl(TGT), PlainDecl(TGT), PlainTail(TGT), <<"a", NL>>, <<"a">>}
Texts(lines) ==
    UNION {{Flatten(ls) : ls \in [1..m -> lines]} : m \in 0..MaxLines}

ValueOf(name, items) == IF name = BAD THEN DictOf(items) ELSE JList(items)

PatchInit ==
    /\ argv = [ok |-> FALSE, dry_run |-> FALSE]
    /\ docs = AllOk(<<>>)
    /\ fs = [p \in Paths |-> NoFile]
    /\ tmps = <<>>
    /\ pc = "idle"
    /\ run = 0
    /\ dry_run = FALSE
    /\ vals = NoVals
    /\ target = ""
    /\ src = <<>>
    /\ content = <<>>
    /\ changed = NoChange
    /\ exit = NoExit
    /\ pre = [fs |-> fs, tmps |-> tmps]
    /\ hist = <<>>
    /\ probe \in {[op |-> "input", file |-> PKG, text |-> t, items |-> v] :
                    t \in Texts(PkgLines), v \in ItemLists}
                 \cup {[op |-> "input", file |-> MIN, text |-> t, items |-> v] :
                         t \in Texts(MinerLines), v \in ItemLists}

\* replace_first as update_packages_defaults calls it for one declaration:
\* out is the text it returns, the text it was given when re raises.
apply_replace_first ==
    /\ probe.op = "input"
    /\ probe.file = PKG
    /\ \E name \in PkgNames :
       \E payload \in {Payload(name, ValueOf(name, probe.items))} :
       \E r \in {replace_first(probe.text, <<pat_annot(name), pat_plain(name)>>,
                                payload)} :
          probe' = [op |-> "replace_first", name |-> name, text |-> probe.text,
                       items |-> probe.items, error |-> ~template_ok(payload),
                       out |-> IF template_ok(payload) THEN r.src ELSE probe.text,
                       changed |-> template_ok(payload) /\ r.changed,
                       used |-> IF template_ok(payload) THEN r.used ELSE 0]
    /\ UNCHANGED <<argv, docs, fs, tmps, pc, run, dry_run, vals, target, src,
                   content, changed, exit, pre, hist>>

\* update_miners_defaults on a miners.py that holds probe.text: out is the
\* text of the file when the function has returned or raised.
apply_update_miners ==
    /\ probe.op = "input"
    /\ probe.file = MIN
    /\ \E v \in {JList(probe.items)} :
       \E r \in {miners_patch(probe.text, v, v, v)} :
          probe' = [op |-> "update_miners_defaults", text |-> probe.text,
                    items |-> probe.items, error |-> r.error,
                    out |-> IF ~r.error /\ r.changed THEN Written(r.src)
                            ELSE probe.text,
                    changed |-> ~r.error /\ r.changed,
                    marks |-> r.marks, used |-> r.used, steps |-> r.steps]
    /\ UNCHANGED <<argv, docs, fs, tmps, pc, run, dry_run, vals, target, src,
                   content, changed, exit, pre, hist>>

PatchNext ==
    \/ apply_replace_first
    \/ apply_update_miners

PatchSpec == PatchInit /\ [][PatchNext]_vars

\* ================================================================ claims
WaPcs == {"wa_backup", "wa_tmp", "wa_write", "wa_close", "wa_rename"}
MinerSeq == <<FILE, PROC, SCR>>
Ended == DOMAIN hist

\* C1: of two invocations in succession on the same files and documents,
\* both run to sys.exit, the second reports no change for either target and
\* leaves each target as the first left it.
C1_SecondRunChangesNothing ==
    (Len(hist) >= 2 /\ hist[1].cause = "sys.exit" /\ hist[2].cause = "sys.exit")
    => /\ hist[2].changed = NoChange
       /\ hist[2].fs[PKG] = hist[1].fs[PKG]
       /\ hist[2].fs[MIN] = hist[1].fs[MIN]

\* C2: an invocation with --dry-run that runs to sys.exit leaves packages.py
\* and miners.py as they were and makes no backup and no temporary file.
C2_DryRunWritesNothing ==
    \A k \in Ended :
        (hist[k].dry_run /\ hist[k].cause = "sys.exit")
        => hist[k].fs = hist[k].pre.fs /\ hist[k].tmps = hist[k].pre.tmps

\* C3: the process exits with 0 exactly when no target was changed, with the
\* changes-were-made code exactly when one was, and a usage error exits with
\* a non-zero code other than the changes-were-made code.
C3_ExitCodes ==
    \A k \in Ended :
        /\ hist[k].cause = "sys.exit"
           => /\ hist[k].code = 0
                 <=> ~(hist[k].changed[PKG] \/ hist[k].changed[MIN])
              /\ hist[k].code = ChangedExit
                 <=> (hist[k].changed[PKG] \/ hist[k].changed[MIN])
        /\ hist[k].cause = "usage"
           => hist[k].code \notin {0, ChangedExit}

\* C4: at every step of write_atomic before the rename the target holds the
\* text it held when the update function read it; after the rename it holds
\* the whole new text; a write_atomic that was killed or that failed left
\* the target with its prior text.
C4_TargetNeverPartial ==
    /\ pc \in WaPcs => fs[target] = src
    /\ (pc \notin WaPcs /\ target # "") => fs[target] = Written(content)
    /\ \A k \in Ended :
          hist[k].cause \in {"OSError", "killed"}
          => hist[k].fs[hist[k].target] = hist[k].src

\* A process was killed when the temporary file held the whole new text,
\* which differs from the target's, and the rename had not happened.
C4_Witness ==
    \E k \in Ended :
        /\ hist[k].cause = "killed"
        /\ hist[k].tmps # <<>>
        /\ Last(hist[k].tmps) = Written(hist[k].content)
        /\ Written(hist[k].content) # hist[k].src
        /\ hist[k].fs[hist[k].target] = hist[k].src

\* A required document is absent or a document is malformed.
FatalInput ==
    \/ docs["bad_packages.json"].st \in {"missing", "malformed"}
    \/ docs["targets.json"].st \in {"missing", "malformed"}
    \/ \E d \in DocNames : docs[d].st = "malformed"

\* C8: with a required document absent or any document malformed, the
\* invocation ends in load_json's exception with code 1 before
\* update_packages_defaults is called, and no target, backup or temporary
\* file is written.
C8_FatalInputWritesNothing ==
    FatalInput
    => /\ pc \in {"idle", "load"}
       /\ fs = pre.fs
       /\ tmps = pre.tmps
       /\ \A k \in Ended :
             /\ hist[k].fs = hist[k].pre.fs
             /\ hist[k].tmps = hist[k].pre.tmps
             /\ hist[k].cause # "usage"
                => /\ hist[k].cause \in {"FileNotFoundError", "JSONDecodeError"}
                   /\ hist[k].code = 1

\* An invocation ended in load_json's exception although packages.py holds
\* declarations the patch would have rewritten.
C8_Witness ==
    /\ FatalInput
    /\ hist # <<>>
    /\ hist[1].cause \in {"FileNotFoundError", "JSONDecodeError"}
    /\ fs[PKG] = AnnotDecl(BAD) \o AnnotDecl(TGT)
    /\ Search(fs[PKG], pat_annot(BAD))[1] # 0

\* C9: when write_atomic has finished, by its return or by an OSError of the
\* write or of the rename, no temporary file remains.
C9_TemporaryFileCleanedUp ==
    /\ pc \in {"miners", "summary"} => tmps = <<>>
    /\ \A k \in Ended : hist[k].cause = "OSError" => hist[k].tmps = <<>>

\* ------------------------------------------------- claims on PatchSpec
Patched == probe.op = "update_miners_defaults" /\ ~probe.error

\* Where tok first stands in text; 0 when nowhere.
IndexOf(text, tok) ==
    IF \E i \in 1..Len(text) : text[i] = tok
    THEN Min({i \in 1..Len(text) : text[i] = tok})
    ELSE 0

\* C5: when a declaration of miners.py is patched through its marker pair,
\* the resulting file holds the begin marker, then exactly the rendered
\* `NAME: List[str] = <serialized value>`, then the end marker.
C5_MarkerHoldsRenderedLiteral ==
    Patched
    => \A k \in 1..3 :
          probe.marks[k]
          => \E payload \in {Payload(MinerSeq[k], JList(probe.items))} :
             \E i \in {IndexOf(probe.out, m_begin(MinerSeq[k]))} :
                /\ i # 0
                /\ i + Len(payload) + 1 <= Len(probe.out)
                /\ SubSeq(probe.out, i + 1, i + Len(payload)) = payload
                /\ probe.out[i + Len(payload) + 1] = m_end(MinerSeq[k])

\* The text without what stands between the marker pair of name.
Cut(text, name) ==
    Bind(MarkSearch(text, m_begin(name), m_end(name)), LAMBDA m :
        IF m[1] = 0 THEN text
        ELSE SubSeq(text, 1, m[1]) \o SubSeq(text, m[2], Len(text)))

\* The text outside the marker pairs of the three declarations.
Skeleton(text) ==
    Bind(Cut(text, FILE), LAMBDA t1 :
    Bind(Cut(t1, PROC), LAMBDA t2 : Cut(t2, SCR)))

HasMarkers(text, name) == MarkSearch(text, m_begin(name), m_end(name))[1] # 0
HasSite(text, name) ==
    Search(text, pat_annot(name))[1] # 0 \/ Search(text, pat_plain(name))[1] # 0

IsSite(text, name, i) ==
    MatchEnd(text, pat_annot(name), i) # 0 \/ MatchEnd(text, pat_plain(name), i) # 0
Sites(text, name) == {i \in 1..Len(text) : IsSite(text, name, i)}
AnnotSites(text, name) ==
    {i \in 1..Len(text) : MatchEnd(text, pat_annot(name), i) # 0}
SiteEnd(text, name, i) ==
    IF MatchEnd(text, pat_annot(name), i) # 0
    THEN MatchEnd(text, pat_annot(name), i)
    ELSE MatchEnd(text, pat_plain(name), i)

\* out is text with the site at i replaced by the payload as re expands it.
RewrittenAt(text, out, name, i, payload) ==
    out = SubSeq(text, 1, i - 1) \o expand_template(payload)
          \o SubSeq(text, SiteEnd(text, name, i) + 1, Len(text))

Replaced == probe.op = "replace_first" /\ ~probe.error

FirstCandidate(text, name) ==
    IF Search(text, pat_annot(name))[1] # 0 THEN 1
    ELSE IF Search(text, pat_plain(name))[1] # 0 THEN 2
    ELSE 0

\* t stands in text as a run of lexemes.
Contains(text, t) ==
    \E i \in 0..(Len(text) - Len(t)) : SubSeq(text, i + 1, i + Len(t)) = t

\* C10 as stated: each declaration whose marker pair is not found and whose
\* regex candidates match is rewritten through the regex, whatever happened
\* to the other declarations.
C10_FallbackPerDeclaration ==
    Patched
    => \A k \in 1..3 :
          (~probe.marks[k] /\ HasSite(probe.text, MinerSeq[k]))
          => /\ probe.used[k] # 0
             /\ Contains(probe.out,
                         expand_template(Payload(MinerSeq[k], JList(probe.items))))

\* C10 as amended: when a marker pair of any declaration is found, no regex
\* candidate is used for any declaration; when none is found, each
\* declaration is rewritten through its first candidate (annotated, then
\* plain) that matches the text as the declarations before it left it.
C10_FallbackOnlyWithoutMarkers ==
    Patched
    => IF \E name \in MinerNames : HasMarkers(probe.text, name)
       THEN probe.used = <<0, 0, 0>>
       ELSE /\ probe.marks = <<FALSE, FALSE, FALSE>>
            /\ \A k \in 1..3 :
                  probe.used[k] = FirstCandidate(probe.steps[k], MinerSeq[k])
            /\ probe.changed <=> probe.used # <<0, 0, 0>>

\* FILE was patched through its markers; PROC has no markers and a plain
\* assignment, which is in the file after the patch as it was before.
C10_Witness ==
    /\ Patched
    /\ probe.marks[1]
    /\ ~probe.marks[2]
    /\ probe.used[2] = 0
    /\ probe.out # probe.text
    /\ Search(probe.text, pat_plain(PROC))[1] # 0
    /\ Search(probe.out, pat_plain(PROC))[1] # 0
====
